---- MODULE Spec2Model ----
(***************************************************************************)
(* A model of callgraphtool's cli.py: the selector resolver                *)
(* (_start_selector), the graph decoder, label reconciler and call-tree    *)
(* renderer (_dot_to_call_tree), the header splice                         *)
(* (_prepend_tree_to_subset_file) and the driver (main).                   *)
(*                                                                         *)
(* Text is modelled as a sequence of tokens: a token is either one         *)
(* punctuation character ("/", ".", ":", " ", a line terminator) or a      *)
(* maximal run of word characters ("foo", "py").  "src/u.py" is            *)
(* <<"src", "/", "u", ".", "py">>.  String equality, concatenation,        *)
(* splitting at a separator and lexicographic comparison are the           *)
(* corresponding operations on token sequences.                            *)
(***************************************************************************)
EXTENDS Integers, Sequences, FiniteSets, TLC

VARIABLES
    \* ---- _dot_to_call_tree ----
    dot_nodes,      \* the node declarations of dot_text, in textual order
    dot_edges,      \* the edge declarations of dot_text, in textual order
    subset_text,    \* the "Source: path:line (func)" occurrences of subset_text
    folder,         \* the scan root
    node_file, node_func, initial_nodes, calls, indegree, roots,
    sources_by_basename_func, sources_by_relpath_func,
    lines,          \* the rendered lines
    emitted,        \* per line: which node it shows and how (bookkeeping)
    global_seen, path,
    stack,          \* the activation records of dfs
    root_index,     \* position of the `for root in roots` loop
    pc,
    run, prev_lines,\* a second rendering of the same graph and the first result
    \* ---- _start_selector ----
    sel_folder,     \* the scan root, as typed
    sel_in,         \* how `raw` was typed: file, function name, style
    sel_fs,         \* the files that exist (resolved component lists)
    sel_pattern, sel_label,
    sel_pc,
    \* ---- _prepend_tree_to_subset_file ----
    file_bytes,     \* the subset file on disk
    file_orig,      \* the subset file as it was before the call (bookkeeping)
    tree_in,        \* tree_lines
    language,
    file_pc,
    \* ---- main ----
    m_args,         \* the parsed arguments and what they find on disk
    m_output,       \* `output`
    m_tmp,          \* temp_output_dir exists
    m_ran, m_rc,    \* the tool has run; its exit status
    m_files,        \* the graph files that exist
    m_subset,       \* the subset file's content, Absent when it does not exist
    m_tree,         \* the tree the written graph text decodes to
    m_after,        \* the files as the tool left them (bookkeeping)
    m_did,          \* the post-processing steps performed (bookkeeping)
    m_passthrough,  \* the tool's captured output was re-emitted
    m_reported,     \* the artifact paths printed
    m_ret,          \* the return value of main
    m_pc

treeVars == <<dot_nodes, dot_edges, subset_text, folder, node_file, node_func,
              initial_nodes, calls, indegree, roots, sources_by_basename_func,
              sources_by_relpath_func, lines, emitted, global_seen, path, stack,
              root_index, pc, run, prev_lines>>

selVars == <<sel_folder, sel_in, sel_fs, sel_pattern, sel_label, sel_pc>>

fileVars == <<file_bytes, file_orig, tree_in, language, file_pc>>

mainVars == <<m_args, m_output, m_tmp, m_ran, m_rc, m_files, m_subset, m_tree, m_after,
              m_did, m_passthrough, m_reported, m_ret, m_pc>>

nonTreeVars == <<selVars, fileVars, mainVars>>

vars == <<treeVars, selVars, fileVars, mainVars>>

----------------------------------------------------------------------------
(* Generic helpers: dicts as functions, sequences.                         *)

EmptyDict == [x \in {} |-> 0]

Put(d, k, v) == [x \in (DOMAIN d) \cup {k} |-> IF x = k THEN v ELSE d[x]]

Get(d, k, default) == IF k \in DOMAIN d THEN d[k] ELSE default

Range(s) == {s[i] : i \in DOMAIN s}

Last(s) == s[Len(s)]

Max(S) == CHOOSE x \in S : \A y \in S : y <= x

RECURSIVE Concat(_)
Concat(ss) == IF ss = <<>> THEN <<>> ELSE Head(ss) \o Concat(Tail(ss))

SeqsUpTo(S, n) == UNION {[1..k -> S] : k \in 0..n}

Perms(S) == {p \in [1..Cardinality(S) -> S] : Range(p) = S}

(* Python's ordering of str: code-point order, here on tokens.  The rank   *)
(* follows the first character's code point; no token of the alphabet is a *)
(* prefix of another, so comparing token sequences token by token agrees   *)
(* with comparing the strings character by character.                      *)
TokenOrder == <<"\n", " ", " (", ")", ".", "/", "3", "7", ":", "\\N",
                "a", "b", "c", "foo", "lib", "main", "proj", "py", "src", "u">>

TokRank(t) == CHOOSE i \in DOMAIN TokenOrder : TokenOrder[i] = t

RECURSIVE StrLess(_, _)
StrLess(s, t) ==
    IF t = <<>> THEN FALSE
    ELSE IF s = <<>> THEN TRUE
    ELSE IF Head(s) = Head(t) THEN StrLess(Tail(s), Tail(t))
    ELSE TokRank(Head(s)) < TokRank(Head(t))

----------------------------------------------------------------------------
(* pathlib, on token sequences.                                            *)

Cwd == <<<<"proj">>>>   \* components of the working directory, /proj

HasSep(s) == \E i \in DOMAIN s : s[i] \in {"/", "\\"}

IsAbs(s) == s # <<>> /\ s[1] = "/"

\* The components of a path string: split at "/", dropping empty and "."
\* components (pathlib's normalisation when a Path is constructed).
RECURSIVE SplitAt(_, _, _)
SplitAt(s, sep, cur) ==
    IF s = <<>> THEN <<cur>>
    ELSE IF Head(s) = sep THEN <<cur>> \o SplitAt(Tail(s), sep, <<>>)
    ELSE SplitAt(Tail(s), sep, Append(cur, Head(s)))

Parts(s) == SelectSeq(SplitAt(s, "/", <<>>), LAMBDA c : c # <<>> /\ c # <<".">>)

RECURSIVE JoinParts(_)
JoinParts(ps) ==
    IF ps = <<>> THEN <<>>
    ELSE IF Len(ps) = 1 THEN ps[1]
    ELSE ps[1] \o <<"/">> \o JoinParts(Tail(ps))

\* str(Path(...)) of a path with the given anchor and components
PathStr(abs, ps) ==
    IF abs THEN <<"/">> \o JoinParts(ps)
    ELSE IF ps = <<>> THEN <<".">> ELSE JoinParts(ps)

\* str(Path(s))
StrPath(s) == PathStr(IsAbs(s), Parts(s))

\* Path(s).name
PathName(s) == IF Parts(s) = <<>> THEN <<>> ELSE Last(Parts(s))

SingleChars == {"\n", " ", ".", "/", ":", "*", "3", "7", "a", "b", "c", "u", "x"}

\* Path(s).resolve(): the components of the absolute path (no symbolic links
\* and no ".." components in the modelled file system)
Resolve(s) == IF IsAbs(s) THEN Parts(s) ELSE Cwd \o Parts(s)

IsPrefix(p, q) == Len(p) <= Len(q) /\ SubSeq(q, 1, Len(p)) = p

\* a.relative_to(b) on resolved component lists; "raise" when b is no prefix
RelativeTo(a, b) ==
    IF IsPrefix(b, a) THEN [ok |-> TRUE, str |-> PathStr(FALSE, SubSeq(a, Len(b) + 1, Len(a)))]
    ELSE [ok |-> FALSE, str |-> <<>>]

----------------------------------------------------------------------------
(* Graph decoder: lines 275-305.                                           *)

Sentinel == <<"\\N">>

None == "None"

\* lines 285-286: label.replace("\\n", "\n"), split("\n"), drop empty parts.
\* A label is modelled by its segments between the line-break markers.
LabelParts(label) == SelectSeq(label, LAMBDA p : p # <<>>)

\* the label text itself, with the markers replaced by newlines
RECURSIVE LabelText(_)
LabelText(label) ==
    IF label = <<>> THEN <<>>
    ELSE IF Len(label) = 1 THEN label[1]
    ELSE label[1] \o <<"\n">> \o LabelText(Tail(label))

\* lines 294-295 (reached only past the two `continue`s)
AppendIfHighlighted(init, m) ==
    IF m.fill THEN Append(init, m.id) ELSE init

\* NodeStep with the highlight test moved before the two `continue`s
NodeStepFlagFirst(acc, m) ==
    LET init == AppendIfHighlighted(acc.initial_nodes, m) IN
    IF ~m.has_label \/ m.label = <<Sentinel>>
    THEN [acc EXCEPT !.initial_nodes = init]
    ELSE LET parts == LabelParts(m.label) IN
         [node_file |-> Put(acc.node_file, m.id,
                            IF Len(parts) >= 2 THEN parts[1] ELSE <<>>),
          node_func |-> Put(acc.node_func, m.id,
                            IF Len(parts) >= 2 THEN Last(parts) ELSE LabelText(m.label)),
          initial_nodes |-> init]

\* one iteration of the loop of lines 275-295
NodeStep(acc, m) ==
    IF ~m.has_label THEN acc
    ELSE IF m.label = <<Sentinel>> THEN acc
    ELSE LET parts == LabelParts(m.label) IN
         [node_file |-> Put(acc.node_file, m.id,
                            IF Len(parts) >= 2 THEN parts[1] ELSE <<>>),
          node_func |-> Put(acc.node_func, m.id,
                            IF Len(parts) >= 2 THEN Last(parts) ELSE LabelText(m.label)),
          initial_nodes |-> AppendIfHighlighted(acc.initial_nodes, m)]

RECURSIVE NodeLoop(_, _)
NodeLoop(stmts, acc) ==
    IF stmts = <<>> THEN acc ELSE NodeLoop(Tail(stmts), NodeStep(acc, Head(stmts)))

\* one iteration of the loop of lines 300-303
EdgeStep(acc, e) ==
    LET from_node == e[1]
        to_node == e[2]
        c1 == Put(acc.calls, from_node, Append(Get(acc.calls, from_node, <<>>), to_node))
        d1 == Put(acc.indegree, to_node, Get(acc.indegree, to_node, 0) + 1)
        d2 == IF from_node \in DOMAIN d1 THEN d1 ELSE Put(d1, from_node, 0)
    IN [calls |-> c1, indegree |-> d2]

RECURSIVE EdgeLoop(_, _)
EdgeLoop(es, acc) ==
    IF es = <<>> THEN acc ELSE EdgeLoop(Tail(es), EdgeStep(acc, Head(es)))

\* sorted(list of node identifiers): ascending by the identifier's text
RECURSIVE SortIds(_)
SortIds(S) ==
    IF S = {} THEN <<>>
    ELSE LET m == CHOOSE x \in S : \A y \in S \ {x} : StrLess(<<x>>, <<y>>)
         IN <<m>> \o SortIds(S \ {m})

\* SelectRoots without the `degree == 0` filter
SelectRootsAnyDegree(initial, indeg) ==
    IF initial # <<>> THEN initial ELSE SortIds(DOMAIN indeg)

\* line 305
SelectRoots(initial, indeg) ==
    IF initial # <<>> THEN initial
    ELSE SortIds({n \in DOMAIN indeg : indeg[n] = 0})

----------------------------------------------------------------------------
(* Label reconciler: lines 307-346.                                        *)

\* f"{rel_path}:{line_num}"
SourceStr(occ) == occ.rel_path \o <<":", occ.line>>

\* SourceStep keeping the first occurrence of a (rel_path, func) key
SourceStepKeepFirst(acc, occ) ==
    LET bk == <<PathName(occ.rel_path), occ.func>>
        rk == <<occ.rel_path, occ.func>>
    IN [by_base |-> Put(acc.by_base, bk, Get(acc.by_base, bk, {}) \cup {SourceStr(occ)}),
        by_rel |-> IF rk \in DOMAIN acc.by_rel THEN acc.by_rel
                   ELSE Put(acc.by_rel, rk, SourceStr(occ))]

\* one iteration of the loop of lines 309-314
SourceStep(acc, occ) ==
    LET bk == <<PathName(occ.rel_path), occ.func>>
        rk == <<occ.rel_path, occ.func>>
    IN [by_base |-> Put(acc.by_base, bk, Get(acc.by_base, bk, {}) \cup {SourceStr(occ)}),
        by_rel |-> Put(acc.by_rel, rk, SourceStr(occ))]

RECURSIVE SourceLoop(_, _)
SourceLoop(occs, acc) ==
    IF occs = <<>> THEN acc ELSE SourceLoop(Tail(occs), SourceStep(acc, Head(occs)))

\* lines 323-331: None when the file label is no path
NormalizedFileLabel(file_label) ==
    IF file_label # <<>> /\ HasSep(file_label)
    THEN IF IsAbs(file_label)
         THEN LET r == RelativeTo(Resolve(file_label), Resolve(folder))
              IN IF r.ok THEN r.str ELSE file_label
         ELSE StrPath(file_label)
    ELSE None

\* BasenameLookup taking some candidate when there are several
BasenameLookupAny(file_label, func) ==
    LET candidates == Get(sources_by_basename_func, <<PathName(file_label), func>>, {})
    IN IF candidates # {} THEN CHOOSE s \in candidates : TRUE ELSE None

\* lines 335-338: the basename tier
BasenameLookup(file_label, func) ==
    LET candidates == Get(sources_by_basename_func, <<PathName(file_label), func>>, {})
    IN IF Cardinality(candidates) = 1 THEN CHOOSE s \in candidates : TRUE ELSE None

\* lines 316-346
display_label(node_id) ==
    LET func == Get(node_func, node_id, <<node_id>>)
        file_label == Get(node_file, node_id, <<>>)
        normalized_file_label == NormalizedFileLabel(file_label)
        exact == IF normalized_file_label # None
                 THEN Get(sources_by_relpath_func, <<normalized_file_label, func>>, None)
                 ELSE None
        source == IF exact = None /\ file_label # <<>>
                  THEN BasenameLookup(file_label, func)
                  ELSE exact
    IN IF source # None /\ source # <<>> THEN func \o <<" (">> \o source \o <<")">>
       ELSE IF normalized_file_label # None /\ normalized_file_label # <<>>
            THEN func \o <<" (">> \o normalized_file_label \o <<")">>
       ELSE IF file_label # <<>> THEN func \o <<" (">> \o file_label \o <<")">>
       ELSE func

----------------------------------------------------------------------------
(* Call-tree renderer: lines 348-390.                                      *)

Header == <<"Call Tree (caller -> callee)">>

\* the box-drawing strings of lines 363-364, in ASCII
BranchLast == "+- "
BranchMid == "|- "
PadLast == "   "
PadMid == "|  "

\* line 348-349
child_sort_key(node_id) == <<Get(node_func, node_id, <<node_id>>), Get(node_file, node_id, <<>>)>>

KeyLess(k1, k2) ==
    StrLess(k1[1], k2[1]) \/ (k1[1] = k2[1] /\ StrLess(k1[2], k2[2]))

\* sorted(seq, key=child_sort_key): a stable insertion sort
RECURSIVE InsertByKey(_, _)
InsertByKey(sorted, x) ==
    IF sorted = <<>> THEN <<x>>
    ELSE IF KeyLess(child_sort_key(x), child_sort_key(Head(sorted)))
         THEN <<x>> \o sorted
         ELSE <<Head(sorted)>> \o InsertByKey(Tail(sorted), x)

RECURSIVE StableSort(_)
StableSort(s) ==
    IF s = <<>> THEN <<>> ELSE InsertByKey(StableSort(SubSeq(s, 1, Len(s) - 1)), Last(s))

\* line 360: sorted(set(calls.get(node_id, [])), key=child_sort_key).  The
\* iteration order of a set of str is whatever the hash table gives (it
\* changes with the hash seed and with the insertion history), so every
\* order of the set is a possible input of the stable sort.
ChildOrders(node_id) ==
    {StableSort(p) : p \in Perms(Range(Get(calls, node_id, <<>>)))}

\* VisitKind without the test of line 367
VisitKindNoCycle(child, onpath, seen) ==
    IF child \in seen THEN "seen" ELSE "plain"

\* VisitKind without the test of line 370
VisitKindNoSeen(child, onpath, seen) ==
    IF child \in onpath THEN "cycle" ELSE "plain"

\* lines 367-374: how a child is shown
VisitKind(child, onpath, seen) ==
    IF child \in onpath THEN "cycle"
    ELSE IF child \in seen THEN "seen"
    ELSE "plain"

\* line 381
RootAlreadyRendered(root, seen) == root \in seen

Suffix(kind) ==
    IF kind = "cycle" THEN <<" (cycle)">>
    ELSE IF kind = "seen" THEN <<" (seen)">>
    ELSE <<>>

\* lines 275-314: decode dot_text, pick the roots, index subset_text
Decode ==
    /\ pc = "decode"
    /\ LET n == NodeLoop(dot_nodes, [node_file |-> EmptyDict, node_func |-> EmptyDict,
                                     initial_nodes |-> <<>>])
           e == EdgeLoop(dot_edges, [calls |-> EmptyDict, indegree |-> EmptyDict])
           s == SourceLoop(subset_text, [by_base |-> EmptyDict, by_rel |-> EmptyDict])
       IN /\ node_file' = n.node_file
          /\ node_func' = n.node_func
          /\ initial_nodes' = n.initial_nodes
          /\ calls' = e.calls
          /\ indegree' = e.indegree
          /\ roots' = SelectRoots(n.initial_nodes, e.indegree)
          /\ sources_by_basename_func' = s.by_base
          /\ sources_by_relpath_func' = s.by_rel
    /\ pc' = "start"
    /\ UNCHANGED <<dot_nodes, dot_edges, subset_text, folder, lines, emitted,
                   global_seen, path, stack, root_index, run, prev_lines>>
    /\ UNCHANGED nonTreeVars

\* lines 351-357
Start ==
    /\ pc = "start"
    /\ IF roots = <<>>
       THEN /\ pc' = "done"
            /\ UNCHANGED <<lines, emitted>>
       ELSE /\ lines' = <<Header>>
            /\ emitted' = <<[node |-> None, mark |-> "header", depth |-> 0, label |-> <<>>]>>
            /\ pc' = "roots"
    /\ global_seen' = {}
    /\ root_index' = 1
    /\ UNCHANGED <<dot_nodes, dot_edges, subset_text, folder, node_file, node_func,
                   initial_nodes, calls, indegree, roots, sources_by_basename_func,
                   sources_by_relpath_func, path, stack, run, prev_lines>>
    /\ UNCHANGED nonTreeVars

\* lines 380-388: one iteration of `for root in roots`, up to the call of dfs
NextRoot ==
    /\ pc = "roots"
    /\ root_index <= Len(roots)
    /\ LET root == roots[root_index] IN
       IF RootAlreadyRendered(root, global_seen)
       THEN UNCHANGED <<lines, emitted, global_seen, path, stack, pc>>
       ELSE LET sep == Len(roots) > 1 /\ Last(lines) # Header
                root_label == display_label(root)
            IN /\ lines' = (IF sep THEN Append(lines, <<>>) ELSE lines) \o <<root_label>>
               /\ emitted' = (IF sep
                              THEN Append(emitted, [node |-> None, mark |-> "blank",
                                                    depth |-> 0, label |-> <<>>])
                              ELSE emitted)
                             \o <<[node |-> root, mark |-> "root", depth |-> 0,
                                   label |-> root_label]>>
               /\ global_seen' = global_seen \cup {root}
               /\ path' = {root}
               /\ \E children \in ChildOrders(root) :
                     stack' = <<[node |-> root, children |-> children, index |-> 1,
                                 prefix |-> <<>>]>>
               /\ pc' = "dfs"
    /\ root_index' = root_index + 1
    /\ UNCHANGED <<dot_nodes, dot_edges, subset_text, folder, node_file, node_func,
                   initial_nodes, calls, indegree, roots, sources_by_basename_func,
                   sources_by_relpath_func, run, prev_lines>>
    /\ UNCHANGED nonTreeVars

\* lines 361-377: one iteration of `for index, child in enumerate(children)`
DfsChild ==
    /\ pc = "dfs"
    /\ stack # <<>>
    /\ LET top == Last(stack)
           rest == SubSeq(stack, 1, Len(stack) - 1)
       IN /\ top.index <= Len(top.children)
          /\ LET child == top.children[top.index]
                 is_last == top.index = Len(top.children)
                 branch == IF is_last THEN BranchLast ELSE BranchMid
                 next_prefix == Append(top.prefix, IF is_last THEN PadLast ELSE PadMid)
                 label == display_label(child)
                 kind == VisitKind(child, path, global_seen)
                 advanced == [top EXCEPT !.index = top.index + 1]
             IN /\ lines' = Append(lines, top.prefix \o <<branch>> \o label \o Suffix(kind))
                /\ emitted' = Append(emitted, [node |-> child, mark |-> kind,
                                               depth |-> Len(stack), label |-> label])
                /\ IF kind = "plain"
                   THEN /\ global_seen' = global_seen \cup {child}
                        /\ path' = path \cup {child}
                        /\ \E children \in ChildOrders(child) :
                              stack' = Append(rest, advanced)
                                       \o <<[node |-> child, children |-> children,
                                             index |-> 1, prefix |-> next_prefix]>>
                   ELSE /\ stack' = Append(rest, advanced)
                        /\ UNCHANGED <<global_seen, path>>
    /\ UNCHANGED <<dot_nodes, dot_edges, subset_text, folder, node_file, node_func,
                   initial_nodes, calls, indegree, roots, sources_by_basename_func,
                   sources_by_relpath_func, root_index, pc, run, prev_lines>>
    /\ UNCHANGED nonTreeVars

\* the loop of dfs is exhausted: return to the caller (line 378, or back in
\* the loop over the roots)
DfsReturn ==
    /\ pc = "dfs"
    /\ stack # <<>>
    /\ LET top == Last(stack) IN
          /\ top.index > Len(top.children)
          /\ stack' = SubSeq(stack, 1, Len(stack) - 1)
          /\ IF Len(stack) > 1
             THEN /\ path' = path \ {top.node}
                  /\ pc' = "dfs"
             ELSE /\ path' = path
                  /\ pc' = "roots"
    /\ UNCHANGED <<dot_nodes, dot_edges, subset_text, folder, node_file, node_func,
                   initial_nodes, calls, indegree, roots, sources_by_basename_func,
                   sources_by_relpath_func, lines, emitted, global_seen, root_index,
                   run, prev_lines>>
    /\ UNCHANGED nonTreeVars

\* line 390
Finish ==
    /\ pc = "roots"
    /\ root_index > Len(roots)
    /\ pc' = "done"
    /\ UNCHANGED <<dot_nodes, dot_edges, subset_text, folder, node_file, node_func,
                   initial_nodes, calls, indegree, roots, sources_by_basename_func,
                   sources_by_relpath_func, lines, emitted, global_seen, path, stack,
                   root_index, run, prev_lines>>
    /\ UNCHANGED nonTreeVars

----------------------------------------------------------------------------
(* Selector resolver: _normalize_start (lines 145-159) and _start_selector *)
(* (lines 197-230).                                                        *)

Whitespace == {" ", "\n"}

Digits == {"3", "7"}

Punctuation == {"\n", " ", " (", ")", ".", "/", ":", "\\", "*"}

\* [A-Za-z_][A-Za-z0-9_]* against one token (a maximal run of word characters)
IsIdentifier(t) == t \notin Punctuation /\ t \notin Digits

RECURSIVE LStrip(_)
LStrip(s) == IF s # <<>> /\ Head(s) \in Whitespace THEN LStrip(Tail(s)) ELSE s

RECURSIVE RStrip(_)
RStrip(s) ==
    IF s # <<>> /\ Last(s) \in Whitespace THEN RStrip(SubSeq(s, 1, Len(s) - 1)) ELSE s

\* str.strip()
Strip(s) == LStrip(RStrip(s))

\* re.search(r"\b<kw>\s+([A-Za-z_][A-Za-z0-9_]*)", raw): the identifier of the
\* leftmost match, or None
KeywordIdent(raw, kw) ==
    LET hits == {i \in DOMAIN raw :
                   /\ raw[i] = kw
                   /\ \E j \in (i + 2)..Len(raw) :
                         /\ \A k \in (i + 1)..(j - 1) : raw[k] \in Whitespace
                         /\ IsIdentifier(raw[j])}
    IN IF hits = {} THEN None
       ELSE LET i == CHOOSE h \in hits : \A g \in hits : h <= g
                j == CHOOSE j \in (i + 2)..Len(raw) :
                        /\ \A k \in (i + 1)..(j - 1) : raw[k] \in Whitespace
                        /\ IsIdentifier(raw[j])
            IN <<raw[j]>>

\* lines 145-159
normalize_start(raw0) ==
    LET raw == Strip(raw0) IN
    IF raw = <<>> THEN raw
    ELSE IF \E i \in DOMAIN raw : raw[i] \in Whitespace
         THEN IF KeywordIdent(raw, "fn") # None THEN KeywordIdent(raw, "fn")
              ELSE IF KeywordIdent(raw, "def") # None THEN KeywordIdent(raw, "def")
              ELSE raw
         ELSE raw

\* the characters re.escape puts a backslash before (Python 3.7 and later)
EscapedChars == {"\n", " ", " (", ")", ".", "\\", "*"}

\* re.escape
RECURSIVE ReEscape(_)
ReEscape(s) ==
    IF s = <<>> THEN <<>>
    ELSE (IF Head(s) \in EscapedChars THEN <<"\\", Head(s)>> ELSE <<Head(s)>>)
         \o ReEscape(Tail(s))

\* re.escape forgotten
\* line 218: rf"\A{re.escape(str(candidate))}:{re.escape(func_name)}\z"
StartPattern(candidate_str, func_name) ==
    <<"\\A">> \o ReEscape(candidate_str) \o <<":">> \o ReEscape(func_name) \o <<"\\z">>

\* Path(s).suffix is not empty: the last component has a "." that is neither
\* its first nor its last character
HasSuffix(s) ==
    /\ Parts(s) # <<>>
    /\ LET name == Last(Parts(s))
           dots == {i \in DOMAIN name : name[i] = "."}
       IN dots # {} /\ Max(dots) > 1 /\ Max(dots) < Len(name)

\* folder / file_path, as a string
JoinPath(dir, file) ==
    IF IsAbs(file) THEN StrPath(file)
    ELSE PathStr(IsAbs(dir), Parts(dir) \o Parts(file))

\* the position of the first ":" of raw, 0 if none
FirstColon(raw) ==
    IF \E i \in DOMAIN raw : raw[i] = ":"
    THEN CHOOSE i \in DOMAIN raw : raw[i] = ":" /\ \A j \in 1..(i - 1) : raw[j] # ":"
    ELSE 0

\* lines 197-230: <<start_pattern, start_label>>
start_selector(dir, raw0) ==
    LET raw == Strip(raw0)
        c == FirstColon(raw)
        maybe_file == Strip(SubSeq(raw, 1, c - 1))
        maybe_func_spec == Strip(SubSeq(raw, c + 1, Len(raw)))
        candidate == JoinPath(dir, maybe_file)
        func_name == normalize_start(maybe_func_spec)
        rel == RelativeTo(Resolve(candidate), Resolve(dir))
        label_file == IF IsAbs(maybe_file) /\ rel.ok THEN rel.str ELSE maybe_file
        start == normalize_start(raw)
    IN IF raw = <<>> THEN <<raw, raw>>
       ELSE IF /\ c > 0
               /\ maybe_file # <<>> /\ maybe_func_spec # <<>>
               /\ HasSuffix(maybe_file)
               /\ Resolve(candidate) \in sel_fs
            THEN <<StartPattern(candidate, func_name), label_file \o <<":">> \o func_name>>
            ELSE <<start, start>>

\* The external tool applies the selector as a (Perl) regular expression to a
\* node identity.  The fragment the selector uses: \A and \z anchors, a
\* backslash before a literal character, "." for any one character, "*" for
\* any repetition left out (never produced), every other token for itself.
RECURSIVE MatchAt(_, _, _, _)
MatchAt(pat, i, str, j) ==
    IF i > Len(pat) THEN TRUE
    ELSE IF pat[i] = "\\A" THEN j = 1 /\ MatchAt(pat, i + 1, str, j)
    ELSE IF pat[i] = "\\z" THEN j = Len(str) + 1 /\ MatchAt(pat, i + 1, str, j)
    ELSE IF pat[i] = "\\"
         THEN /\ i < Len(pat) /\ j <= Len(str) /\ str[j] = pat[i + 1]
              /\ MatchAt(pat, i + 2, str, j + 1)
    ELSE IF pat[i] = "."
         THEN /\ j <= Len(str) /\ str[j] \in SingleChars
              /\ MatchAt(pat, i + 1, str, j + 1)
    ELSE /\ j <= Len(str) /\ str[j] = pat[i]
         /\ MatchAt(pat, i + 1, str, j + 1)

\* a regular-expression search: a match at some position
Matches(pat, str) == \E j \in 1..(Len(str) + 1) : MatchAt(pat, 1, str, j)

\* how `raw` is typed from its parts
FuncSpec(in) ==
    IF in.style = "def" THEN <<"def", " ", in.func>>
    ELSE IF in.style = "fn" THEN <<"fn", " ", in.func>>
    ELSE <<in.func>>

RawOf(in) ==
    IF in.file = <<>> THEN FuncSpec(in)
    ELSE in.pad \o in.file \o <<":">> \o in.pad \o FuncSpec(in)

SelIdle ==
    /\ sel_folder = <<>> /\ sel_in = None /\ sel_fs = {}
    /\ sel_pattern = None /\ sel_label = None /\ sel_pc = "idle"

\* the call of line 497
StartSelector ==
    /\ sel_pc = "call"
    /\ LET r == start_selector(sel_folder, RawOf(sel_in)) IN
          /\ sel_pattern' = r[1]
          /\ sel_label' = r[2]
    /\ sel_pc' = "returned"
    /\ UNCHANGED <<sel_folder, sel_in, sel_fs>>
    /\ UNCHANGED <<treeVars, fileVars, mainVars>>

----------------------------------------------------------------------------
(* Header splice: _comment_prefix (lines 233-264) and                      *)
(* _prepend_tree_to_subset_file (lines 393-409).  A file is a sequence of  *)
(* tokens; its line terminators are the tokens "\n", "\r\n" and "\r", and  *)
(* "<ff>" is a byte that is no UTF-8.                                      *)

\* lines 233-264, for the languages of the model
comment_prefix(lang) ==
    IF lang \in {"c", "rs"} THEN "//"
    ELSE IF lang = "lua" THEN "--"
    ELSE IF lang = "for" THEN "!"
    ELSE "#"

\* Path.read_text(encoding="utf-8", errors="replace"): undecodable bytes
\* become U+FFFD, and text mode translates every line terminator to "\n"
ReadText(bytes) ==
    [i \in DOMAIN bytes |->
        IF bytes[i] \in {"\r\n", "\r"} THEN "\n"
        ELSE IF bytes[i] = "<ff>" THEN "<fffd>"
        ELSE bytes[i]]

\* Path.write_text(..., encoding="utf-8") where os.linesep is "\n"
WriteText(text) == text

\* splitting after every token of `ends`, the terminators kept
RECURSIVE SplitKeepEnds(_, _, _)
SplitKeepEnds(s, ends, cur) ==
    IF s = <<>> THEN (IF cur = <<>> THEN <<>> ELSE <<cur>>)
    ELSE IF Head(s) \in ends
         THEN <<Append(cur, Head(s))>> \o SplitKeepEnds(Tail(s), ends, <<>>)
         ELSE SplitKeepEnds(Tail(s), ends, Append(cur, Head(s)))

\* str.splitlines(keepends=True); of the tokens of the model only "\n" is a
\* line boundary once the text has been read in text mode
SplitLines(text) == SplitKeepEnds(text, {"\n"}, <<>>)

\* lines 403-405: the number of leading lines that start with "#!"
RECURSIVE LeadingDirectives(_)
LeadingDirectives(ls) ==
    IF ls # <<>> /\ Head(ls)[1] = "#!" THEN 1 + LeadingDirectives(Tail(ls)) ELSE 0

\* line 407
CommentBlock(lang, tree_lines) ==
    Concat([i \in DOMAIN tree_lines |->
              <<comment_prefix(lang), " ">> \o tree_lines[i] \o <<"\n">>]) \o <<"\n">>

\* lines 393-409: the file's bytes after the call
prepend_tree_to_subset_file(bytes, lang, tree_lines) ==
    IF tree_lines = <<>> THEN bytes
    ELSE LET original_lines == SplitLines(ReadText(bytes))
             insert_at == LeadingDirectives(original_lines)
         IN WriteText(Concat(SubSeq(original_lines, 1, insert_at))
                      \o CommentBlock(lang, tree_lines)
                      \o Concat(SubSeq(original_lines, insert_at + 1, Len(original_lines))))

FileIdle ==
    /\ file_bytes = <<>> /\ file_orig = <<>> /\ tree_in = <<>>
    /\ language = "py" /\ file_pc = "idle"

\* the call of line 566
Prepend ==
    /\ file_pc = "call"
    /\ file_bytes' = prepend_tree_to_subset_file(file_bytes, language, tree_in)
    /\ file_pc' = "returned"
    /\ UNCHANGED <<file_orig, tree_in, language>>
    /\ UNCHANGED <<treeVars, selVars, mainVars>>

----------------------------------------------------------------------------
(* The driver: main (lines 474-590) and _dot_path_for_output (412-416).    *)

\* Path.with_suffix(".dot") / Path.with_name(name + ".dot") on <<stem.., ".", ext>>
dot_path_for_output(output) ==
    IF Last(output) \in {"dot", "png", "svg", "pdf"}
    THEN SubSeq(output, 1, Len(output) - 1) \o <<"dot">>
    ELSE output \o <<".", "dot">>

ToolSucceededAnyStatus(rc) == rc >= 0

\* `result.returncode != 0` (line 552) is false
ToolSucceeded(rc) == rc = 0

TmpDot == <<"tmp", "/", "callgraph", ".", "dot">>

\* tempfile.TemporaryDirectory.cleanup(): the directory and what is in it
InTmp(f) == f[1] = "tmp"

ToolCodes == {0, 1, 2}

SubsetContents == {<<"#!", "sh", "\n", "x", "\n">>, <<"x", "\n">>}

\* subset_code.exists() is false
Absent == <<"<absent>">>

MainTrees == {<<>>, <<Header, <<"a">>>>}

MainIdle ==
    /\ m_args = None /\ m_output = <<>> /\ m_tmp = FALSE /\ m_ran = FALSE /\ m_rc = 0
    /\ m_files = {} /\ m_subset = Absent /\ m_tree = <<>>
    /\ m_after = [files |-> {}, subset |-> Absent]
    /\ m_did = {} /\ m_passthrough = FALSE /\ m_reported = <<>> /\ m_ret = 0
    /\ m_pc = "idle"

\* lines 477-495
CheckArgs ==
    /\ m_pc = "start"
    /\ IF m_args.env = "ok"
       THEN m_pc' = "prepare" /\ m_ret' = m_ret
       ELSE m_pc' = "returned" /\ m_ret' = 2
    /\ UNCHANGED <<m_args, m_output, m_tmp, m_ran, m_rc, m_files, m_subset, m_tree,
                   m_after, m_did, m_passthrough, m_reported>>
    /\ UNCHANGED <<treeVars, selVars, fileVars>>

\* lines 497-548: where the graph goes
Prepare ==
    /\ m_pc = "prepare"
    /\ IF m_args.output # <<>>
       THEN m_output' = m_args.output /\ m_tmp' = FALSE
       ELSE IF m_args.subset
            THEN m_output' = TmpDot /\ m_tmp' = TRUE
            ELSE m_output' = <<"results", "/", "callgraph_foo", ".", "png">> /\ m_tmp' = FALSE
    /\ m_pc' = "run"
    /\ UNCHANGED <<m_args, m_ran, m_rc, m_files, m_subset, m_tree, m_after, m_did,
                   m_passthrough, m_reported, m_ret>>
    /\ UNCHANGED <<treeVars, selVars, fileVars>>

\* line 551: the blocking call of the external tool.  Whatever its status,
\* the tool may have written the output, the graph text beside it and the
\* subset file before it exits.
RunTool ==
    /\ m_pc = "run"
    /\ \E rc \in ToolCodes,
          written \in SUBSET {m_output, dot_path_for_output(m_output)},
          subset \in (IF m_args.subset THEN SubsetContents \cup {Absent} ELSE {Absent}),
          tree \in MainTrees :
          /\ m_rc' = rc
          /\ m_files' = written
          /\ m_subset' = subset
          /\ m_tree' = tree
          /\ m_after' = [files |-> written, subset |-> subset]
          /\ m_pc' = IF ToolSucceeded(rc) THEN "splice" ELSE "failed"
    /\ m_ran' = TRUE
    /\ UNCHANGED <<m_args, m_output, m_tmp, m_did, m_passthrough, m_reported, m_ret>>
    /\ UNCHANGED <<treeVars, selVars, fileVars>>

\* lines 552-557, then the `finally` of lines 577-579
ToolFailed ==
    /\ m_pc = "failed"
    /\ m_passthrough' = TRUE
    /\ m_files' = IF m_tmp THEN {f \in m_files : ~InTmp(f)} ELSE m_files
    /\ m_tmp' = FALSE
    /\ m_ret' = m_rc
    /\ m_pc' = "returned"
    /\ UNCHANGED <<m_args, m_output, m_ran, m_rc, m_subset, m_tree, m_after, m_did,
                   m_reported>>
    /\ UNCHANGED <<treeVars, selVars, fileVars>>

\* lines 559-568
HeaderSplice ==
    /\ m_pc = "splice"
    /\ IF m_args.subset /\ m_subset # Absent /\ dot_path_for_output(m_output) \in m_files
       THEN /\ m_subset' = prepend_tree_to_subset_file(m_subset, "py", m_tree)
            /\ m_did' = m_did \cup {"decode", "splice"}
       ELSE UNCHANGED <<m_subset, m_did>>
    /\ m_pc' = "unlink"
    /\ UNCHANGED <<m_args, m_output, m_tmp, m_ran, m_rc, m_files, m_tree, m_after,
                   m_passthrough, m_reported, m_ret>>
    /\ UNCHANGED <<treeVars, selVars, fileVars>>

\* lines 570-576
RemoveDot ==
    /\ m_pc = "unlink"
    /\ IF Last(m_output) # "dot"
       THEN /\ m_files' = m_files \ {dot_path_for_output(m_output)}
            /\ m_did' = m_did \cup {"unlink"}
       ELSE UNCHANGED <<m_files, m_did>>
    /\ m_pc' = "cleanup"
    /\ UNCHANGED <<m_args, m_output, m_tmp, m_ran, m_rc, m_subset, m_tree, m_after,
                   m_passthrough, m_reported, m_ret>>
    /\ UNCHANGED <<treeVars, selVars, fileVars>>

\* lines 577-579 on the way out of the `try`
Cleanup ==
    /\ m_pc = "cleanup"
    /\ m_files' = IF m_tmp THEN {f \in m_files : ~InTmp(f)} ELSE m_files
    /\ m_tmp' = FALSE
    /\ m_pc' = "report"
    /\ UNCHANGED <<m_args, m_output, m_ran, m_rc, m_subset, m_tree, m_after, m_did,
                   m_passthrough, m_reported, m_ret>>
    /\ UNCHANGED <<treeVars, selVars, fileVars>>

\* lines 581-590
Report ==
    /\ m_pc = "report"
    /\ LET first == IF m_args.subset /\ m_subset # Absent THEN <<"subset">> ELSE <<>>
           second == IF m_args.output # <<>> /\ m_output \in m_files
                     THEN <<m_output>> ELSE <<>>
           printed_any == first \o second
           out == IF printed_any = <<>> /\ m_output \in m_files
                  THEN <<m_output>> ELSE printed_any
       IN /\ m_reported' = out
          /\ m_did' = IF out # <<>> THEN m_did \cup {"report"} ELSE m_did
    /\ m_ret' = 0
    /\ m_pc' = "returned"
    /\ UNCHANGED <<m_args, m_output, m_tmp, m_ran, m_rc, m_files, m_subset, m_tree,
                   m_after, m_passthrough>>
    /\ UNCHANGED <<treeVars, selVars, fileVars>>

----------------------------------------------------------------------------
(* Inputs.                                                                 *)

Nodes == {"a", "b", "c"}

MaxEdges == 3

Pairs == Nodes \X Nodes

U_PY == <<"u", ".", "py">>

\* a declaration `id [label="u.py\nfoo"];`
Labelled(id, fill) == [id |-> id, has_label |-> TRUE, label |-> <<U_PY, <<"foo">>>>, fill |-> fill]

TreeDecls == {<<>>,
              <<Labelled("b", FALSE), Labelled("c", FALSE)>>,
              <<Labelled("a", TRUE)>>}

ProjFolder == <<"/", "proj">>

TreeStart ==
    /\ node_file = EmptyDict /\ node_func = EmptyDict /\ initial_nodes = <<>>
    /\ calls = EmptyDict /\ indegree = EmptyDict /\ roots = <<>>
    /\ sources_by_basename_func = EmptyDict /\ sources_by_relpath_func = EmptyDict
    /\ lines = <<>> /\ emitted = <<>> /\ global_seen = {} /\ path = {}
    /\ stack = <<>> /\ root_index = 1 /\ pc = "decode"
    /\ run = 1 /\ prev_lines = <<>>
    /\ SelIdle /\ FileIdle /\ MainIdle

Init ==
    /\ dot_nodes \in TreeDecls
    /\ dot_edges \in SeqsUpTo(Pairs, MaxEdges)
    /\ subset_text = <<>>
    /\ folder = ProjFolder
    /\ TreeStart

Next == Decode \/ Start \/ NextRoot \/ DfsChild \/ DfsReturn \/ Finish

Spec == Init /\ [][Next]_vars

\* ---- a second rendering of the same caller->callee pairs ----

\* _dot_to_call_tree is called again on a graph text with the same node
\* declarations and the same set of edges, listed in another order or with
\* other repetitions.
Rerun ==
    /\ pc = "done"
    /\ run = 1
    /\ dot_edges' \in {es \in SeqsUpTo(Pairs, MaxEdges) : Range(es) = Range(dot_edges)}
    /\ prev_lines' = lines
    /\ run' = 2
    /\ node_file' = EmptyDict /\ node_func' = EmptyDict /\ initial_nodes' = <<>>
    /\ calls' = EmptyDict /\ indegree' = EmptyDict /\ roots' = <<>>
    /\ sources_by_basename_func' = EmptyDict /\ sources_by_relpath_func' = EmptyDict
    /\ lines' = <<>> /\ emitted' = <<>> /\ global_seen' = {} /\ path' = {}
    /\ stack' = <<>> /\ root_index' = 1 /\ pc' = "decode"
    /\ UNCHANGED <<dot_nodes, subset_text, folder>>
    /\ UNCHANGED nonTreeVars

RerunNext == Next \/ Rerun

RerunSpec == Init /\ [][RerunNext]_vars

\* ---- root selection: varied node declarations ----

MaxDecls == 1

MaxRootEdges == 2

DeclKinds ==
    {[has_label |-> FALSE, label |-> <<>>, fill |-> TRUE],
     [has_label |-> TRUE, label |-> <<Sentinel>>, fill |-> TRUE],
     [has_label |-> TRUE, label |-> <<U_PY, <<"foo">>>>, fill |-> TRUE],
     [has_label |-> TRUE, label |-> <<<<"main">>>>, fill |-> FALSE]}

DeclStmts ==
    {[id |-> n, has_label |-> k.has_label, label |-> k.label, fill |-> k.fill] :
        n \in Nodes, k \in DeclKinds}

RootEdgePairs == {<<"a", "b">>, <<"a", "c">>, <<"b", "c">>, <<"c", "a">>, <<"c", "c">>}

RootInit ==
    /\ dot_nodes \in SeqsUpTo(DeclStmts, MaxDecls)
    /\ dot_edges \in SeqsUpTo(RootEdgePairs, MaxRootEdges)
    /\ subset_text = <<>>
    /\ folder = ProjFolder
    /\ TreeStart

RootSpec == RootInit /\ [][Next]_vars

\* ---- label reconciliation: varied file labels and subset listings ----

MaxOcc == 2

SRC_U_PY == <<"src", "/">> \o U_PY

FileLabels ==
    {U_PY,                                  \* u.py
     SRC_U_PY,                              \* src/u.py
     <<"/", "proj", "/">> \o SRC_U_PY,      \* /proj/src/u.py, under the scan root
     <<"/", "lib", "/">> \o U_PY}           \* /lib/u.py, outside the scan root

Occurrences ==
    {[rel_path |-> p, line |-> l, func |-> <<"foo">>] :
        p \in {U_PY, SRC_U_PY, <<"lib", "/">> \o U_PY}, l \in {"3", "7"}}

LabelInit ==
    /\ \E fl \in FileLabels :
          dot_nodes = <<[id |-> "a", has_label |-> TRUE, label |-> <<fl, <<"foo">>>>,
                         fill |-> TRUE]>>
    /\ dot_edges = <<<<"a", "b">>, <<"a", "c">>, <<"b", "c">>, <<"c", "a">>>>
    /\ subset_text \in SeqsUpTo(Occurrences, MaxOcc)
    /\ folder = ProjFolder
    /\ TreeStart

LabelSpec == LabelInit /\ [][Next]_vars

\* ---- the selector resolver on typed start tokens ----

TreeIdle ==
    /\ dot_nodes = <<>> /\ dot_edges = <<>> /\ subset_text = <<>> /\ folder = <<>>
    /\ node_file = EmptyDict /\ node_func = EmptyDict /\ initial_nodes = <<>>
    /\ calls = EmptyDict /\ indegree = EmptyDict /\ roots = <<>>
    /\ sources_by_basename_func = EmptyDict /\ sources_by_relpath_func = EmptyDict
    /\ lines = <<>> /\ emitted = <<>> /\ global_seen = {} /\ path = {}
    /\ stack = <<>> /\ root_index = 1 /\ pc = "idle"
    /\ run = 1 /\ prev_lines = <<>>

ProjSrcUPy == <<<<"proj">>, <<"src">>, U_PY>>   \* /proj/src/u.py, resolved

SelFolders == {ProjFolder, <<".">>, <<"/", "lib">>}

SelFiles == {<<>>, SRC_U_PY, <<"/", "proj", "/">> \o SRC_U_PY, <<"src", "/", "u">>}

SelInit ==
    /\ sel_folder \in SelFolders
    /\ sel_in \in [file : SelFiles, func : {"foo", "x"}, style : {"bare", "def", "fn"},
                    pad : {<<>>, <<" ">>}]
    /\ sel_fs \in {{}, {ProjSrcUPy}, {ProjSrcUPy, <<<<"proj">>, <<"src">>, <<"u">>>>}}
    /\ sel_pattern = None /\ sel_label = None /\ sel_pc = "call"
    /\ TreeIdle /\ FileIdle /\ MainIdle

SelNext == StartSelector

SelSpec == SelInit /\ [][SelNext]_vars

\* ---- the header splice on files and trees ----

MaxFileLines == 2

MaxTreeLines == 2

TerminatedLines == {<<"#!", "sh", "\n">>, <<"x", "\n">>, <<"x", "\r\n">>, <<"<ff>", "\n">>}

UnterminatedLines == {<<>>, <<"#!", "sh">>, <<"x">>}

TreeLines == {Header, <<"a">>, <<>>}

PrependInit ==
    /\ \E ls \in SeqsUpTo(TerminatedLines, MaxFileLines), t \in UnterminatedLines :
          file_bytes = Concat(ls) \o t
    /\ file_orig = file_bytes
    /\ tree_in \in SeqsUpTo(TreeLines, MaxTreeLines)
    /\ language \in {"py", "c", "zz"}
    /\ file_pc = "call"
    /\ TreeIdle /\ SelIdle /\ MainIdle

PrependNext == Prepend

PrependSpec == PrependInit /\ [][PrependNext]_vars

\* ---- runs of main ----

MainInit ==
    /\ m_args \in [env : {"ok", "nofolder", "notdir", "nobin"},
                    output : {<<>>, <<"o", ".", "png">>, <<"o", ".", "dot">>, <<"o", ".", "txt">>},
                    subset : BOOLEAN]
    /\ m_output = <<>> /\ m_tmp = FALSE /\ m_ran = FALSE /\ m_rc = 0
    /\ m_files = {} /\ m_subset = Absent /\ m_tree = <<>>
    /\ m_after = [files |-> {}, subset |-> Absent]
    /\ m_did = {} /\ m_passthrough = FALSE /\ m_reported = <<>> /\ m_ret = 0
    /\ m_pc = "start"
    /\ TreeIdle /\ SelIdle /\ FileIdle

MainNext ==
    CheckArgs \/ Prepare \/ RunTool \/ ToolFailed \/ HeaderSplice \/ RemoveDot
    \/ Cleanup \/ Report

MainSpec == MainInit /\ [][MainNext]_vars

----------------------------------------------------------------------------
(* Reading the rendered tree back.                                         *)

Plainly(i) == emitted[i].mark \in {"root", "plain"}

\* the nodes on the root-to-line path of line j: for each smaller depth, the
\* nearest earlier line of that depth
Ancestors(j) ==
    {emitted[i].node : i \in {i \in 1..(j - 1) :
        /\ Plainly(i)
        /\ emitted[i].depth < emitted[j].depth
        /\ \A k \in (i + 1)..(j - 1) : emitted[k].depth > emitted[i].depth}}

HasChildren(i) == i < Len(emitted) /\ emitted[i + 1].depth > emitted[i].depth

TextMarked(i, suffix) == lines[i] # <<>> /\ Last(lines[i]) = suffix

----------------------------------------------------------------------------
(* C1: the walk terminates on every graph of the bounded input set (self   *)
(* loops and longer cycles included) with finitely many lines: every step  *)
(* increases a step count that the decoded graph bounds, and the walk is   *)
(* never stuck before it returns.  A child that is on the current          *)
(* root-to-node path is emitted as exactly one line ending in " (cycle)"   *)
(* without a new activation of dfs.                                        *)

C1_CycleStep ==
    (/\ pc = "dfs" /\ stack # <<>>
     /\ Last(stack).index <= Len(Last(stack).children)
     /\ Last(stack).children[Last(stack).index] \in path)
    => (/\ Len(lines') = Len(lines) + 1
        /\ SubSeq(lines', 1, Len(lines)) = lines
        /\ Last(Last(lines')) = " (cycle)"
        /\ Len(stack') = Len(stack)
        /\ path' = path)

\* the number of steps taken so far: every step of the walk adds to it
Steps ==
    Len(lines) + root_index
    + (Cardinality({i \in DOMAIN emitted : Plainly(i)}) - Len(stack))
    + (CASE pc = "decode" -> 0 [] pc = "start" -> 1 [] pc = "done" -> 3 [] OTHER -> 2)

\* a bound that depends on the decoded graph alone
StepBound == 5 + 4 * Len(roots) + 2 * Cardinality(Range(dot_edges))

C1_Progress == Steps' > Steps

C1_Bounded ==
    /\ Steps <= StepBound
    /\ Len(lines) <= 1 + 2 * Len(roots) + Cardinality(Range(dot_edges))
    \* never stuck before the return (Decode has no guard but its pc)
    /\ pc \notin {"decode", "done"} =>
          ENABLED (Start \/ NextRoot \/ DfsChild \/ DfsReturn \/ Finish)

C1_CycleTerminates == [](C1_Bounded) /\ [][C1_Progress /\ C1_CycleStep]_vars

\* the closing edge of a cycle a -> b -> c -> a has been rendered
C1_Witness ==
    /\ pc = "done"
    /\ \E i \in DOMAIN emitted :
          /\ emitted[i].mark = "cycle" /\ emitted[i].depth = 3
          /\ TextMarked(i, " (cycle)")

----------------------------------------------------------------------------
(* C2: over the whole output every node has at most one line without a     *)
(* suffix, only such a line has children below it, a later occurrence off  *)
(* the current path is one " (seen)" line, one on the path a " (cycle)"     *)
(* line, and no node is rendered as a root after it was rendered before.   *)

----------------------------------------------------------------------------
(* C3: two renderings of graphs with the same node declarations and the    *)
(* same set of caller->callee pairs, listed in any order and multiplicity, *)
(* give identical lines.                                                   *)

C3_EdgeOrderIndependent == (pc = "done" /\ run = 2) => lines = prev_lines

----------------------------------------------------------------------------
(* Reading the decoded graph against the graph text.                       *)

Endpoints == {e[1] : e \in Range(dot_edges)} \cup {e[2] : e \in Range(dot_edges)}

NoIncoming(n) == \A e \in Range(dot_edges) : e[2] # n

Ascending(ids) ==
    \A i, j \in DOMAIN ids : i < j => StrLess(<<ids[i]>>, <<ids[j]>>)

IdsOf(stmts) == [i \in DOMAIN stmts |-> stmts[i].id]

----------------------------------------------------------------------------
(* C4 (as amended): with a flagged node the roots are the flagged nodes;   *)
(* otherwise they are the edge endpoints without an incoming edge, in      *)
(* ascending order - a declared node that is in no edge is not a root.     *)
(* The output is empty (no header) exactly when there is no root, and one  *)
(* root without children renders as the header and the root's line.        *)

C4_Roots ==
    pc # "decode" =>
      /\ initial_nodes # <<>> => roots = initial_nodes
      /\ initial_nodes = <<>> =>
            /\ Range(roots) = {n \in Endpoints : NoIncoming(n)}
            /\ Ascending(roots)
      /\ pc = "done" => (lines = <<>> <=> roots = <<>>)
      /\ (pc = "done" /\ Len(roots) = 1 /\ \A e \in Range(dot_edges) : e[1] # roots[1]) =>
            /\ Len(lines) = 2 /\ lines[1] = Header
            /\ emitted[2].node = roots[1] /\ emitted[2].mark = "root"
            /\ lines[2] = emitted[2].label

\* a decoded node outside every edge, next to a rendered in-degree-zero root
C4_Witness ==
    /\ pc = "done" /\ initial_nodes = <<>> /\ roots # <<>>
    /\ \E n \in DOMAIN node_func : n \notin Endpoints /\ n \notin Range(roots)

\* C4 as stated: without a flagged node the roots are all decoded nodes and
\* edge endpoints without an incoming edge, and the output is empty only
\* when there is none.
C4_Original ==
    (pc = "done" /\ initial_nodes = <<>>) =>
      LET claimed == {n \in (DOMAIN node_func) \cup Endpoints : NoIncoming(n)}
      IN /\ Range(roots) = claimed
         /\ lines = <<>> <=> claimed = {}

----------------------------------------------------------------------------
(* C9 (as amended): the decoder flags exactly the declarations that carry  *)
(* the highlight marker and a label other than the placeholder sentinel,   *)
(* in textual order.  A highlighted declaration without such a label is    *)
(* not flagged; its node is a root only as an in-degree-zero edge endpoint *)
(* when nothing is flagged, and is shown by its raw identifier.            *)

UsableLabel(m) == m.has_label /\ m.label # <<Sentinel>>

C9_Flagged ==
    pc # "decode" =>
      /\ initial_nodes = IdsOf(SelectSeq(dot_nodes, LAMBDA m : UsableLabel(m) /\ m.fill))
      /\ \A k \in DOMAIN dot_nodes :
            (dot_nodes[k].id \in Range(roots)
             /\ \A j \in DOMAIN dot_nodes :
                   dot_nodes[j].id = dot_nodes[k].id => ~UsableLabel(dot_nodes[j]))
            => /\ initial_nodes = <<>>
               /\ dot_nodes[k].id \in Endpoints /\ NoIncoming(dot_nodes[k].id)
      /\ \A i \in DOMAIN emitted :
            (emitted[i].node \in Nodes /\ emitted[i].node \notin DOMAIN node_func)
            => emitted[i].label = <<emitted[i].node>>

\* a highlighted declaration without a usable label whose node is rendered,
\* by its raw identifier, without having been flagged
C9_Witness ==
    /\ pc = "done"
    /\ \E k \in DOMAIN dot_nodes :
          /\ dot_nodes[k].fill /\ ~UsableLabel(dot_nodes[k])
          /\ dot_nodes[k].id \notin Range(initial_nodes)
          /\ \E i \in DOMAIN emitted :
                emitted[i].node = dot_nodes[k].id /\ lines[i] = <<dot_nodes[k].id>>

\* C9 as stated: every declaration with the highlight marker is flagged and
\* used as a root.
C9_Original ==
    pc # "decode" =>
      \A k \in DOMAIN dot_nodes :
         dot_nodes[k].fill =>
           dot_nodes[k].id \in Range(initial_nodes) /\ dot_nodes[k].id \in Range(roots)

----------------------------------------------------------------------------
(* Reading a displayed label against the subset listing.                   *)

Fmt(func, loc) == func \o <<" (">> \o loc \o <<")">>

\* what the label falls back to when no location is shown
FallbackLabel(n) ==
    LET norm == NormalizedFileLabel(node_file[n])
    IN Fmt(node_func[n], IF norm # None THEN norm ELSE node_file[n])

\* the listing's occurrences of the node's (basename, function)
BaseOccs(n) ==
    {o \in Range(subset_text) :
        PathName(o.rel_path) = PathName(node_file[n]) /\ o.func = node_func[n]}

\* the positions of the listing's occurrences of the node's exact
\* (relative path, function)
ExactOccs(n) ==
    {k \in DOMAIN subset_text :
        /\ NormalizedFileLabel(node_file[n]) # None
        /\ subset_text[k].rel_path = NormalizedFileLabel(node_file[n])
        /\ subset_text[k].func = node_func[n]}

\* the lines that show a node with a file label
FileLabelled == {i \in DOMAIN emitted :
                   emitted[i].node \in DOMAIN node_func /\ node_file[emitted[i].node] # <<>>}

AmbiguousBasename(n) == Cardinality({o.rel_path : o \in BaseOccs(n)}) >= 2

----------------------------------------------------------------------------
(* C5 (as amended): when the listing has occurrences of the node's         *)
(* (basename, function) at two or more relative paths and the exact lookup *)
(* misses, the label shows no line number: it is "function (P)" with P the *)
(* file label normalised relative to the scan root when the label is a     *)
(* path with a separator, and the raw file label otherwise.                *)

C5_AmbiguousFallsBack ==
    \A i \in FileLabelled :
       LET n == emitted[i].node IN
       (AmbiguousBasename(n) /\ ExactOccs(n) = {}) =>
          /\ emitted[i].label = FallbackLabel(n)
          /\ \A o \in Range(subset_text) : emitted[i].label # Fmt(node_func[n], SourceStr(o))
          /\ emitted[i].mark = "root" => lines[i] = FallbackLabel(n)

\* an ambiguous basename under an absolute file label inside the scan root
C5_Witness ==
    /\ pc = "done"
    /\ \E i \in FileLabelled :
          LET n == emitted[i].node IN
          /\ AmbiguousBasename(n) /\ ExactOccs(n) = {}
          /\ IsAbs(node_file[n])
          /\ lines[i] = Fmt(<<"foo">>, SRC_U_PY)

\* C5 as stated: the fallback is "function (file-label)"
C5_Original ==
    \A i \in FileLabelled :
       LET n == emitted[i].node IN
       (AmbiguousBasename(n) /\ ExactOccs(n) = {}) =>
          emitted[i].label = Fmt(node_func[n], node_file[n])

----------------------------------------------------------------------------
(* C10 (as amended): a label shows a "path:line" location only in two      *)
(* cases: the exact tier hits, and the location is the LAST occurrence the *)
(* listing records for the node's (relative path, function) - earlier      *)
(* occurrences with other line numbers are overwritten; or the exact tier  *)
(* misses and the listing records exactly one distinct "relpath:line" for  *)
(* the node's (basename, function).  Otherwise no location is shown.       *)

C10_ShownLocation ==
    \A i \in FileLabelled :
       LET n == emitted[i].node
           cands == {SourceStr(o) : o \in BaseOccs(n)}
       IN IF ExactOccs(n) # {}
          THEN emitted[i].label = Fmt(node_func[n], SourceStr(subset_text[Max(ExactOccs(n))]))
          ELSE IF Cardinality(cands) = 1
               THEN \A c \in cands : emitted[i].label = Fmt(node_func[n], c)
               ELSE emitted[i].label = FallbackLabel(n)

\* the exact tier hits a (path, function) that the listing records at two
\* different lines
C10_Witness ==
    /\ pc = "done"
    /\ \E i \in FileLabelled :
          LET n == emitted[i].node IN
          /\ Cardinality({subset_text[k].line : k \in ExactOccs(n)}) = 2
          /\ lines[i] = Fmt(node_func[n], SourceStr(subset_text[Max(ExactOccs(n))]))

\* C10 as stated: a shown location is the only one the listing records for
\* its (path, function)
C10_Original ==
    \A i \in FileLabelled :
       LET n == emitted[i].node IN
       \A o \in Range(subset_text) :
          emitted[i].label = Fmt(node_func[n], SourceStr(o)) =>
             Cardinality({SourceStr(q) : q \in {q \in Range(subset_text) :
                             q.rel_path = o.rel_path /\ q.func = o.func}}) = 1

----------------------------------------------------------------------------
(* C6: for a start token "<file>:<function>" whose file has an extension   *)
(* and exists (absolute, or relative to the scan root), the selector is    *)
(* anchored at both ends and matches the node identity                     *)
(* "<absolute path of the file>:<function name>" and no string around it,  *)
(* and the label is "<relative-or-original path>:<function name>".         *)

\* the file the start token names, resolved
NamedFile == Resolve(JoinPath(sel_folder, sel_in.file))

\* node identities near the exact one
Probes(identity) ==
    {identity, <<"x">> \o identity, identity \o <<"x">>, Tail(identity),
     [i \in DOMAIN identity |-> IF identity[i] = "." THEN "x" ELSE identity[i]],
     SRC_U_PY \o <<":", sel_in.func>>}

C6_ExactSelector ==
    (/\ sel_pc = "returned"
     /\ sel_in.file # <<>> /\ HasSuffix(sel_in.file) /\ NamedFile \in sel_fs)
    => LET identity == PathStr(TRUE, NamedFile) \o <<":", sel_in.func>>
           rel == RelativeTo(NamedFile, Resolve(sel_folder))
           shown == IF IsAbs(sel_in.file) /\ rel.ok THEN rel.str ELSE sel_in.file
       IN /\ Head(sel_pattern) = "\\A" /\ Last(sel_pattern) = "\\z"
          /\ \A probe \in Probes(identity) :
                Matches(sel_pattern, probe) <=> probe = identity
          /\ sel_label = shown \o <<":", sel_in.func>>

----------------------------------------------------------------------------
(* C7: when the tool exits with a status other than 0, main returns that   *)
(* status and does no post-processing: nothing is decoded or spliced, the  *)
(* subset file is as the tool left it, no artifact path is printed, and of *)
(* the graph files the tool wrote exactly those outside the run's          *)
(* temporary directory remain (a dot file beside an output of another      *)
(* format is kept; the temporary directory is still removed, with the dot  *)
(* text in it).  The post-processing steps are taken only after status 0.  *)

C7_FailureIsFatal ==
    /\ m_did # {} => (m_ran /\ m_rc = 0)
    /\ (m_pc = "returned" /\ m_ran /\ m_rc # 0) =>
          /\ m_ret = m_rc
          /\ m_did = {}
          /\ m_subset = m_after.subset
          /\ m_reported = <<>>
          /\ m_files = {f \in m_after.files : f[1] # "tmp"}

\* the tool failed after writing the subset file and the intermediate dot
\* file beside the requested output, and both are still there
C7_Witness ==
    /\ m_pc = "returned" /\ m_ran /\ m_rc = 2
    /\ m_subset # Absent
    /\ dot_path_for_output(m_output) # m_output
    /\ dot_path_for_output(m_output) \in m_files

\* C7 as stated: after a failed tool call the dot file the tool wrote is
\* never removed
C7_Original ==
    (m_pc = "returned" /\ m_ran /\ m_rc # 0) =>
          /\ m_ret = m_rc
          /\ m_did = {}
          /\ m_reported = <<>>
          /\ dot_path_for_output(m_output) \in m_after.files
                => dot_path_for_output(m_output) \in m_files

----------------------------------------------------------------------------
(* C8: with a non-empty tree the file becomes: its leading "#!" lines, one *)
(* comment line per tree line, one blank line, and all remaining lines     *)
(* unchanged; with an empty tree the file is unchanged.                    *)

\* the lines of a file as stored, whatever their terminator
StoredLines(bytes) == SplitKeepEnds(bytes, {"\n", "\r\n", "\r"}, <<>>)

C8_SplicePreservesRest ==
    file_pc = "returned" =>
      IF tree_in = <<>> THEN file_bytes = file_orig
      ELSE LET old == StoredLines(file_orig)
               new == StoredLines(file_bytes)
               k == LeadingDirectives(old)
               n == Len(tree_in)
           IN /\ Len(new) = Len(old) + n + 1
              /\ \A i \in 1..k : new[i] = old[i]
              /\ \A j \in 1..n :
                    new[k + j] = <<comment_prefix(language), " ">> \o tree_in[j] \o <<"\n">>
              /\ new[k + n + 1] = <<"\n">>
              /\ \A i \in (k + 1)..Len(old) : new[i + n + 1] = old[i]

====
